---- MODULE Spec2Model ----
(***************************************************************************)
(* Loan approval predictor (src/app.py): one run of main() from the load   *)
(* of the pickled artifact to the displayed prediction.                    *)
(*                                                                         *)
(* Numbers.  Probabilities are percentages (0.82 is 82).  A cell of the    *)
(* preprocessed frame is an exact rational <<num, den>>.  The ratio test   *)
(* (loan_amount/loan_term)/applicant_income < 0.5 is decided exactly; see  *)
(* ratio_below_half.                                                       *)
(***************************************************************************)
EXTENDS Integers, Sequences, FiniteSets, TLC

VARIABLES
    pc,             \* position of the run inside main()
    model_data,     \* load_model()'s result; items: the elements the for-loop
                    \* of extract_components has not visited yet
    components,     \* extract_components()'s dict
    demo_mode,      \* main l.212-216
    input_data,     \* the widgets' values / input_data of l.337-349
    risk_score,     \* main l.300-312
    risk_level,     \* main l.314
    clicked,        \* st.button(...) of l.335 returned True in this run
    processed_data, \* preprocess_input()'s result
    prediction,     \* main's prediction (NoneInt: None)
    proba,          \* main's proba of l.367 (<<>>: None)
    probability,    \* main's probability, in percent
    path,           \* which branch of l.354-381 set prediction
    outcome,        \* how the run ended
    decision        \* what the result card of l.386-408 shows

vars == <<pc, model_data, components, demo_mode, input_data, risk_score,
          risk_level, clicked, processed_data, prediction, proba,
          probability, path, outcome, decision>>

(***************************************************************************)
(* Bounds of the exploration.                                              *)
(***************************************************************************)
\* longest pickled tuple explored
MaxBundle == 2
\* most widgets (record fields) that differ from the widget defaults
MaxChanged == 2

\* Python's None where the code holds an int (make_prediction's None, None)
NoneInt == -1

(***************************************************************************)
(* The pickled artifact and its objects.                                   *)
(***************************************************************************)
DecisionTreeClassifier ==
    [type |-> "DecisionTreeClassifier", has_classes_ |-> FALSE, classes_ |-> <<>>]
StandardScaler ==
    [type |-> "StandardScaler", has_classes_ |-> FALSE, classes_ |-> <<>>]
\* a fitted LabelEncoder: classes_ is the sorted array of the labels seen
LabelEncoder(classes) ==
    [type |-> "LabelEncoder", has_classes_ |-> TRUE, classes_ |-> classes]
\* a LabelEncoder that was never fitted has no classes_ attribute
UnfittedLabelEncoder ==
    [type |-> "LabelEncoder", has_classes_ |-> FALSE, classes_ |-> <<>>]
\* any other pickled object
OtherObject ==
    [type |-> "object", has_classes_ |-> FALSE, classes_ |-> <<>>]

\* vocabularies an encoder of the bundle may have been fitted on, each in
\* the sorted order LabelEncoder.fit gives classes_
Vocabularies ==
    { <<"Female", "Male">>,
      <<"No", "Yes">>,
      <<"0", "1", "2", "3+">>,
      <<"Graduate", "Not Graduate">>,
      <<"Rural", "Semiurban", "Urban">>,
      <<"N", "Y">>,
      <<"Male", "Yes">>,
      <<"A", "B">> }

Items ==
    {DecisionTreeClassifier, StandardScaler, OtherObject, UnfittedLabelEncoder}
        \cup {LabelEncoder(v) : v \in Vocabularies}

RECURSIVE TuplesUpTo(_)
TuplesUpTo(n) ==
    IF n = 0 THEN {<<>>}
    ELSE LET shorter == TuplesUpTo(n - 1)
         IN  shorter \cup {Append(t, i) : t \in {s \in shorter : Len(s) = n - 1}, i \in Items}

\* what loan_approval_model.pkl may be: absent, unreadable, or a pickle of
\* a tuple, of a single object, or of None
Artifacts ==
    { [file |-> "missing", kind |-> "None", items |-> <<>>],
      [file |-> "corrupt", kind |-> "None", items |-> <<>>],
      [file |-> "ok", kind |-> "None", items |-> <<>>],
      [file |-> "ok", kind |-> "object", items |-> <<DecisionTreeClassifier>>] }
        \cup {[file |-> "ok", kind |-> "tuple", items |-> t] : t \in TuplesUpTo(MaxBundle)}

NoneData == [kind |-> "None", items |-> <<>>]
UnsetData == [kind |-> "unset", items |-> <<>>]

\* load_model: the unpickled object, or None when open/pickle.load raises
load_model(artifact) ==
    IF artifact.file # "ok" THEN NoneData
    ELSE [kind |-> artifact.kind, items |-> artifact.items]

(***************************************************************************)
(* extract_components                                                      *)
(***************************************************************************)
EmptyDict == [k \in {} |-> <<>>]
SetItem(d, k, v) == [x \in (DOMAIN d) \cup {k} |-> IF x = k THEN v ELSE d[x]]
In(x, seq) == \E i \in 1..Len(seq) : seq[i] = x

\* components as created at l.108-112
NewComponents == [model |-> "None", scaler |-> "None", label_encoders |-> EmptyDict]

\* encoder_key with the Property_Area key misspelt
encoder_key_misspelt(classes) ==
    IF In("Male", classes) THEN "Gender"
    ELSE IF In("Yes", classes) THEN "Married"
    ELSE IF In("3+", classes) THEN "Dependents"
    ELSE IF In("Graduate", classes) THEN "Education"
    ELSE IF In("Urban", classes) THEN "Property Area"
    ELSE IF In("Y", classes) THEN "Loan_Status"
    ELSE ""

\* the key the elif chain of l.127-144 files an encoder under ("" : none)
encoder_key(classes) ==
    IF In("Male", classes) THEN "Gender"
    ELSE IF In("Yes", classes) THEN "Married"
    ELSE IF In("3+", classes) THEN "Dependents"
    ELSE IF In("Graduate", classes) THEN "Education"
    ELSE IF In("Urban", classes) THEN "Property_Area"
    ELSE IF In("Y", classes) THEN "Loan_Status"
    ELSE ""

\* one iteration of the loop of l.116-144
extract_item(c, item) ==
    IF item.type = "DecisionTreeClassifier" THEN [c EXCEPT !.model = item.type]
    ELSE IF item.type = "StandardScaler" THEN [c EXCEPT !.scaler = item.type]
    ELSE IF item.type = "LabelEncoder" /\ item.has_classes_
                /\ encoder_key(item.classes_) # ""
         THEN [c EXCEPT !.label_encoders =
                    SetItem(@, encoder_key(item.classes_), item.classes_)]
    ELSE c

(***************************************************************************)
(* The widgets of the sidebar.                                             *)
(***************************************************************************)
FieldNames ==
    {"Gender", "Married", "Dependents", "Education", "Self_Employed",
     "ApplicantIncome", "CoapplicantIncome", "LoanAmount", "Loan_Amount_Term",
     "Credit_History", "Property_Area"}

\* the value every widget shows first
Defaults ==
    [Gender |-> "Male", Married |-> "No", Dependents |-> "0",
     Education |-> "Graduate", Self_Employed |-> "No",
     ApplicantIncome |-> 5000, CoapplicantIncome |-> 0, LoanAmount |-> 100000,
     Loan_Amount_Term |-> 360, Credit_History |-> 1, Property_Area |-> "Urban"]

\* sampled positions of the four sliders, inside their ranges
ApplicantIncomeValues == {1500, 2500, 3000, 5000}
CoapplicantIncomeValues == {0, 41000}
LoanAmountValues == {100000, 300000, 301000}
LoanTermValues == {12, 40, 360}

Changed(r) == Cardinality({f \in FieldNames : r[f] # Defaults[f]})

RecordsOver(incomes, terms) ==
    { r \in [Gender : {"Male", "Female"}, Married : {"No", "Yes"},
             Dependents : {"0", "1", "2", "3+"},
             Education : {"Graduate", "Not Graduate"},
             Self_Employed : {"No", "Yes"},
             ApplicantIncome : incomes,
             CoapplicantIncome : CoapplicantIncomeValues,
             LoanAmount : LoanAmountValues,
             Loan_Amount_Term : terms,
             Credit_History : {1, 0},
             Property_Area : {"Urban", "Semiurban", "Rural"}] :
        Changed(r) <= MaxChanged }

\* what the widgets of l.228-251 can return
WidgetRecords == RecordsOver(ApplicantIncomeValues, LoanTermValues)

\* the ApplicantRecord of the data model: ApplicantIncome >= 0, and the
\* loan term the zero-guard speaks of
ApplicantRecords == RecordsOver(ApplicantIncomeValues \cup {0}, LoanTermValues \cup {0})

(***************************************************************************)
(* preprocess_input                                                        *)
(***************************************************************************)
gender_map == ("Male" :> 1) @@ ("Female" :> 0)
married_map == ("Yes" :> 1) @@ ("No" :> 0)
\* education_map with the codes in the order a fitted LabelEncoder gives
education_map_sorted == ("Graduate" :> 0) @@ ("Not Graduate" :> 1)
education_map == ("Graduate" :> 1) @@ ("Not Graduate" :> 0)
self_employed_map == ("Yes" :> 1) @@ ("No" :> 0)
dependents_map == ("0" :> 0) @@ ("1" :> 1) @@ ("2" :> 2) @@ ("3+" :> 3)
property_area_map == ("Urban" :> 2) @@ ("Semiurban" :> 1) @@ ("Rural" :> 0)

\* column order of the frame: the insertion order of processed_data, l.160-172
Columns ==
    <<"Gender", "Married", "Dependents", "Education", "Self_Employed",
      "ApplicantIncome", "CoapplicantIncome", "LoanAmount", "Loan_Amount_Term",
      "Credit_History", "Property_Area">>

numerical_columns ==
    <<"ApplicantIncome", "CoapplicantIncome", "LoanAmount", "Loan_Amount_Term">>

\* parameters of the fitted StandardScaler of the bundle (a sample fit)
scaler_mean_ ==
    ("ApplicantIncome" :> 5400) @@ ("CoapplicantIncome" :> 1600)
        @@ ("LoanAmount" :> 146000) @@ ("Loan_Amount_Term" :> 342)
scaler_scale_ ==
    ("ApplicantIncome" :> 6100) @@ ("CoapplicantIncome" :> 2900)
        @@ ("LoanAmount" :> 85000) @@ ("Loan_Amount_Term" :> 65)

\* an unscaled cell
Cell(x) == <<x, 1>>
\* StandardScaler.transform on one column: (x - mean_) / scale_
transform(col, x) == <<x - scaler_mean_[col], scaler_scale_[col]>>

NoneFrame == [is_none |-> TRUE, columns |-> <<>>, cells |-> <<>>]

\* the dict of l.160-172, manual encoding only
manual_encoding(data) ==
    ("Gender" :> gender_map[data.Gender])
        @@ ("Married" :> married_map[data.Married])
        @@ ("Dependents" :> dependents_map[data.Dependents])
        @@ ("Education" :> education_map[data.Education])
        @@ ("Self_Employed" :> self_employed_map[data.Self_Employed])
        @@ ("ApplicantIncome" :> data.ApplicantIncome)
        @@ ("CoapplicantIncome" :> data.CoapplicantIncome)
        @@ ("LoanAmount" :> data.LoanAmount)
        @@ ("Loan_Amount_Term" :> data.Loan_Amount_Term)
        @@ ("Credit_History" :> data.Credit_History)
        @@ ("Property_Area" :> property_area_map[data.Property_Area])

\* preprocess_input without the "is not None" test of l.178: calling
\* transform on None raises, and the except of l.184 returns None
preprocess_input_unguarded(data, c, transform_raises) ==
    IF c.scaler = "None" \/ transform_raises THEN NoneFrame
    ELSE [is_none |-> FALSE,
          columns |-> Columns,
          cells |-> [i \in 1..Len(Columns) |->
                        IF In(Columns[i], numerical_columns)
                        THEN transform(Columns[i], manual_encoding(data)[Columns[i]])
                        ELSE Cell(manual_encoding(data)[Columns[i]])]]

\* preprocess_input; transform_raises: scaler.transform raises on this frame
preprocess_input(data, c, transform_raises) ==
    IF \/ data.Gender \notin DOMAIN gender_map
       \/ data.Married \notin DOMAIN married_map
       \/ data.Dependents \notin DOMAIN dependents_map
       \/ data.Education \notin DOMAIN education_map
       \/ data.Self_Employed \notin DOMAIN self_employed_map
       \/ data.Property_Area \notin DOMAIN property_area_map
    THEN NoneFrame
    ELSE IF c.scaler # "None" /\ transform_raises THEN NoneFrame
    ELSE LET row == manual_encoding(data)
             scaled(col) == c.scaler # "None" /\ In(col, numerical_columns)
         IN  [is_none |-> FALSE,
              columns |-> Columns,
              cells |-> [i \in 1..Len(Columns) |->
                            IF scaled(Columns[i]) THEN transform(Columns[i], row[Columns[i]])
                            ELSE Cell(row[Columns[i]])]]

(***************************************************************************)
(* make_prediction                                                         *)
(***************************************************************************)
\* class distributions a leaf of the tree may hold, <<P(class 0), P(class 1)>>
Distributions == {<<100, 0>>, <<75, 25>>, <<50, 50>>, <<25, 75>>, <<0, 100>>}

\* DecisionTreeClassifier.predict: the class of the first largest entry
predict(tree_proba) == IF tree_proba[1] >= tree_proba[2] THEN 0 ELSE 1

make_prediction(predict_raises, tree_proba) ==
    IF predict_raises THEN [prediction |-> NoneInt, probabilities |-> <<>>]
    ELSE [prediction |-> predict(tree_proba), probabilities |-> tree_proba]

\* min where l.369 takes max
min_of(probabilities) ==
    IF probabilities[1] <= probabilities[2] THEN probabilities[1] ELSE probabilities[2]

\* l.369: max(proba)
max(probabilities) ==
    IF probabilities[1] >= probabilities[2] THEN probabilities[1] ELSE probabilities[2]

(***************************************************************************)
(* The run of main()                                                       *)
(***************************************************************************)
NoDecision == [approved |-> FALSE, confidence |-> NoneInt]

Init ==
    /\ pc = "start"
    /\ model_data = UnsetData
    /\ components = NewComponents
    /\ demo_mode = FALSE
    /\ input_data = Defaults
    /\ risk_score = 0
    /\ risk_level = "None"
    /\ clicked = FALSE
    /\ processed_data = NoneFrame
    /\ prediction = NoneInt
    /\ proba = <<>>
    /\ probability = NoneInt
    /\ path = "none"
    /\ outcome = "none"
    /\ decision = NoDecision

\* l.204: model_data = load_model()
LoadModel ==
    /\ pc = "start"
    /\ \E artifact \in Artifacts : model_data' = load_model(artifact)
    /\ pc' = "loaded"
    /\ UNCHANGED <<components, demo_mode, input_data, risk_score, risk_level,
                   clicked, processed_data, prediction, proba, probability, path,
                   outcome, decision>>

\* main going on in demo mode after a failed load, without the return of l.207
LoadFailed_continues ==
    /\ pc = "loaded"
    /\ model_data.kind = "None"
    /\ demo_mode' = TRUE
    /\ pc' = "sidebar"
    /\ UNCHANGED <<model_data, components, input_data, risk_score, risk_level,
                   clicked, processed_data, prediction, proba, probability,
                   path, outcome, decision>>

\* l.205-207: the load failed, main returns
LoadFailed ==
    /\ pc = "loaded"
    /\ model_data.kind = "None"
    /\ outcome' = "load_failed"
    /\ pc' = "done"
    /\ UNCHANGED <<model_data, components, demo_mode, input_data, risk_score,
                   risk_level, clicked, processed_data, prediction, proba,
                   probability, path, decision>>

\* l.114-144: one iteration of extract_components' loop over a tuple
ExtractItem ==
    /\ pc = "loaded"
    /\ model_data.kind = "tuple"
    /\ model_data.items # <<>>
    /\ components' = extract_item(components, Head(model_data.items))
    /\ model_data' = [model_data EXCEPT !.items = Tail(@)]
    /\ UNCHANGED <<pc, demo_mode, input_data, risk_score, risk_level, clicked,
                   processed_data, prediction, proba, probability, path, outcome,
                   decision>>

\* l.146, l.212-217: extract_components returns, main picks the mode
ChooseMode ==
    /\ pc = "loaded"
    /\ \/ model_data.kind = "object"
       \/ model_data.kind = "tuple" /\ model_data.items = <<>>
    /\ demo_mode' = (components.model = "None")
    /\ pc' = "sidebar"
    /\ UNCHANGED <<model_data, components, input_data, risk_score, risk_level,
                   clicked, processed_data, prediction, proba, probability, path,
                   outcome, decision>>

\* l.220-251: the widgets return the user's values
Sidebar ==
    /\ pc = "sidebar"
    /\ input_data' \in WidgetRecords
    /\ pc' = "summary"
    /\ UNCHANGED <<model_data, components, demo_mode, risk_score, risk_level,
                   clicked, processed_data, prediction, proba, probability, path,
                   outcome, decision>>

\* the same step fed with any ApplicantRecord of the data model
Intake ==
    /\ pc = "sidebar"
    /\ input_data' \in ApplicantRecords
    /\ pc' = "summary"
    /\ UNCHANGED <<model_data, components, demo_mode, risk_score, risk_level,
                   clicked, processed_data, prediction, proba, probability, path,
                   outcome, decision>>

\* float division raises ZeroDivisionError on a zero divisor
divides_by_zero(loan_term, applicant_income) ==
    loan_term = 0 \/ applicant_income = 0

\* (loan_amount/loan_term)/applicant_income < 0.5 for positive divisors.
\* Exact: the quotient differs from 1/2 by at least 1/(2*480*81000) unless
\* it equals 1/2, far more than two float roundings move it, and when it
\* equals 1/2 both divisions are exact.
ratio_below_half(loan_amount, loan_term, applicant_income) ==
    2 * loan_amount < loan_term * applicant_income

\* l.300-312
risk_points(d) ==
    (IF d.Credit_History = 0 THEN 40 ELSE 0)
        + (IF d.ApplicantIncome < 3000 THEN 20 ELSE 0)
        + (IF d.CoapplicantIncome = 0 THEN 10 ELSE 0)
        + (IF d.LoanAmount > 300000 THEN 15 ELSE 0)
        + (IF d.Education = "Not Graduate" THEN 10 ELSE 0)
        + (IF d.Self_Employed = "Yes" THEN 5 ELSE 0)

\* level_of with the thresholds included in the lower level
level_of_inclusive(score) ==
    IF score <= 30 THEN "Low" ELSE IF score <= 60 THEN "Medium" ELSE "High"

\* l.314
level_of(score) ==
    IF score < 30 THEN "Low" ELSE IF score < 60 THEN "Medium" ELSE "High"

\* l.254-328: the summary cards (the ratio of l.292) and the risk gauge
Summary ==
    /\ pc = "summary"
    /\ IF divides_by_zero(input_data.Loan_Amount_Term, input_data.ApplicantIncome)
       THEN /\ outcome' = "fault"
            /\ pc' = "done"
            /\ UNCHANGED <<risk_score, risk_level>>
       ELSE /\ risk_score' = risk_points(input_data)
            /\ risk_level' = level_of(risk_points(input_data))
            /\ pc' = "button"
            /\ UNCHANGED outcome
    /\ UNCHANGED <<model_data, components, demo_mode, input_data, clicked,
                   processed_data, prediction, proba, probability, path, decision>>

\* l.335: the button was not pressed; the run ends with the footer
NoClick ==
    /\ pc = "button"
    /\ pc' = "done"
    /\ UNCHANGED <<model_data, components, demo_mode, input_data, risk_score,
                   risk_level, clicked, processed_data, prediction, proba,
                   probability, path, outcome, decision>>

\* the demo rule without its ratio test
demo_prediction_without_ratio(d) ==
    IF d.Credit_History = 1 /\ d.ApplicantIncome > 2500
    THEN [prediction |-> 1, probability |-> 82]
    ELSE [prediction |-> 0, probability |-> 76]

\* l.356-362: the demo rule
demo_prediction(d) ==
    IF d.Credit_History = 1 /\ d.ApplicantIncome > 2500
          /\ ratio_below_half(d.LoanAmount, d.Loan_Amount_Term, d.ApplicantIncome)
    THEN [prediction |-> 1, probability |-> 82]
    ELSE [prediction |-> 0, probability |-> 76]

\* whether evaluating the condition of l.356-357 divides by zero (the and
\* evaluates the ratio only after the two tests before it held)
demo_faults(d) ==
    /\ d.Credit_History = 1
    /\ d.ApplicantIncome > 2500
    /\ divides_by_zero(d.Loan_Amount_Term, d.ApplicantIncome)

\* l.335-362: the button pressed in demo mode
PredictDemo ==
    /\ pc = "button"
    /\ demo_mode
    /\ clicked' = TRUE
    /\ IF demo_faults(input_data)
       THEN /\ outcome' = "fault"
            /\ pc' = "done"
            /\ UNCHANGED <<prediction, proba, probability, path>>
       ELSE /\ prediction' = demo_prediction(input_data).prediction
            /\ probability' = demo_prediction(input_data).probability
            /\ path' = "demo"
            /\ pc' = "display"
            /\ UNCHANGED <<proba, outcome>>
    /\ UNCHANGED <<model_data, components, demo_mode, input_data, risk_score,
                   risk_level, processed_data, decision>>

\* l.371-378: the rule used when make_prediction returned None
fallback_prediction(d) ==
    IF d.Credit_History = 1 /\ d.ApplicantIncome > 2500
    THEN [prediction |-> 1, probability |-> 75]
    ELSE [prediction |-> 0, probability |-> 70]

\* l.335-353, l.363-381: the button pressed with a model loaded
PredictModel ==
    /\ pc = "button"
    /\ ~demo_mode
    /\ clicked' = TRUE
    /\ \E transform_raises \in BOOLEAN, predict_raises \in BOOLEAN,
          tree_proba \in Distributions :
         LET frame == preprocess_input(input_data, components, transform_raises)
             made == make_prediction(predict_raises, tree_proba)
             fb == fallback_prediction(input_data)
         IN  /\ processed_data' = frame
             /\ IF frame.is_none
                THEN /\ outcome' = "preprocessing_failed"
                     /\ pc' = "done"
                     /\ UNCHANGED <<prediction, proba, probability, path>>
                ELSE IF made.prediction # NoneInt
                THEN /\ prediction' = made.prediction
                     /\ proba' = made.probabilities
                     /\ probability' = max(made.probabilities)
                     /\ path' = "model"
                     /\ pc' = "display"
                     /\ UNCHANGED outcome
                ELSE /\ prediction' = fb.prediction
                     /\ proba' = made.probabilities
                     /\ probability' = fb.probability
                     /\ path' = "fallback"
                     /\ pc' = "display"
                     /\ UNCHANGED outcome
    /\ UNCHANGED <<model_data, components, demo_mode, input_data, risk_score,
                   risk_level, decision>>

\* l.383-417: the result card
Display ==
    /\ pc = "display"
    /\ decision' = [approved |-> (prediction = 1), confidence |-> probability]
    /\ outcome' = "decision"
    /\ pc' = "done"
    /\ UNCHANGED <<model_data, components, demo_mode, input_data, risk_score,
                   risk_level, clicked, processed_data, prediction, proba,
                   probability, path>>

\* Streamlit runs the script again from the top on the next interaction
Rerun ==
    /\ pc = "done"
    /\ pc' = "start"
    /\ model_data' = UnsetData
    /\ components' = NewComponents
    /\ demo_mode' = FALSE
    /\ input_data' = Defaults
    /\ risk_score' = 0
    /\ risk_level' = "None"
    /\ clicked' = FALSE
    /\ processed_data' = NoneFrame
    /\ prediction' = NoneInt
    /\ proba' = <<>>
    /\ probability' = NoneInt
    /\ path' = "none"
    /\ outcome' = "none"
    /\ decision' = NoDecision

Next ==
    \/ LoadModel
    \/ LoadFailed
    \/ ExtractItem
    \/ ChooseMode
    \/ Sidebar
    \/ Summary
    \/ NoClick
    \/ PredictDemo
    \/ PredictModel
    \/ Display
    \/ Rerun

Spec == Init /\ [][Next]_vars

\* main() applied to the records of the data model instead of the widgets
NextRecord ==
    \/ LoadModel
    \/ LoadFailed
    \/ ExtractItem
    \/ ChooseMode
    \/ Intake
    \/ Summary
    \/ NoClick
    \/ PredictDemo
    \/ PredictModel
    \/ Display
    \/ Rerun

SpecRecord == Init /\ [][NextRecord]_vars

(***************************************************************************)
(* Properties                                                              *)
(***************************************************************************)
\* the fallback decision function as the design states it:
\* credit_history == 1 AND applicant_income > 2500 AND
\* (loan_amount / loan_term) / applicant_income < 0.5, over positive divisors
FallbackApproves(d) ==
    /\ d.Credit_History = 1
    /\ d.ApplicantIncome > 2500
    /\ d.LoanAmount * 2 < d.ApplicantIncome * d.Loan_Amount_Term

FallbackDecision(d) ==
    [approved |-> FallbackApproves(d),
     confidence |-> IF FallbackApproves(d) THEN 82 ELSE 76]

\* LabelEncoder.transform on a label of its vocabulary: the label's index
\* in classes_
label_code(classes, label) ==
    (CHOOSE i \in 1..Len(classes) : classes[i] = label) - 1

CategoricalFields ==
    {"Gender", "Married", "Dependents", "Education", "Self_Employed", "Property_Area"}

ColumnIndex(col) == CHOOSE i \in 1..Len(Columns) : Columns[i] = col

\* C1: when the model step failed (make_prediction returned None), the
\* Decision shown is the one the fallback formula gives: approved iff
\* credit history 1, income > 2500 and ratio < 0.5, confidence 82% if
\* approved and 76% otherwise.
C1_FallbackFollowsFormula ==
    (pc = "done" /\ path = "fallback" /\ outcome = "decision")
        => decision = FallbackDecision(input_data)

\* C2 (as stated): a run whose artifact could not be loaded goes on in
\* fallback-only mode, and a prediction requested in it gets a Decision from
\* the fallback function.
C2_LoadFailureDegrades ==
    (pc = "done" /\ model_data.kind = "None")
        => /\ demo_mode
           /\ outcome # "load_failed"
           /\ clicked => (outcome = "decision" /\ path = "demo")

\* C2 (amended): when load_model returns None the run ends at once with
\* the load error: no component is extracted, demo mode is not entered, no
\* prediction is requested and no Decision is produced.
C2_LoadFailureEndsRun ==
    model_data.kind = "None"
        => /\ pc \in {"loaded", "done"}
           /\ pc = "done" => outcome = "load_failed"
           /\ components = NewComponents
           /\ ~demo_mode
           /\ ~clicked
           /\ path = "none"
           /\ decision = NoDecision

C2_Witness ==
    pc = "done" /\ model_data.kind = "None" /\ outcome = "load_failed"

\* C3 (as stated): every prediction request ends with a Decision or with an
\* InvalidCategory rejection.
C3_DecisionOrInvalidCategory ==
    (pc = "done" /\ clicked) => outcome \in {"decision", "invalid_category"}

\* C3 (amended): every prediction request ends with a Decision or with the
\* "Preprocessing failed" error and no Decision; the latter exactly when a
\* model is loaded and the scaler's transform raised.  A request is past
\* its prediction step as soon as the button is pressed, and a failure of
\* the model step alone still ends in a Decision.
C3_RequestOutcomes ==
    /\ clicked => pc \in {"display", "done"}
    /\ (pc = "done" /\ clicked)
          => /\ outcome \in {"decision", "preprocessing_failed"}
             /\ outcome = "preprocessing_failed"
                   => /\ ~demo_mode
                      /\ components.scaler # "None"
                      /\ processed_data.is_none
                      /\ decision = NoDecision
             /\ outcome = "decision"
                   => /\ decision.confidence \in 0..100
                      /\ path \in {"demo", "model", "fallback"}
             /\ path = "fallback" => outcome = "decision"

C3_Witness ==
    /\ pc = "done"
    /\ clicked
    /\ outcome = "preprocessing_failed"
    /\ components.model # "None"
    /\ components.scaler # "None"

C5_DemoDecision ==
    /\ (pc \in {"sidebar", "summary", "button", "display", "done"}
            /\ model_data.kind # "None")
          => (demo_mode <=> components.model = "None")
    /\ (pc = "done" /\ clicked /\ components.model = "None")
          => /\ outcome = "decision"
             /\ path = "demo"
             /\ decision = FallbackDecision(input_data)

C5_Witness ==
    /\ pc = "done"
    /\ clicked
    /\ components.model = "None"
    /\ input_data = Defaults
    /\ decision = [approved |-> TRUE, confidence |-> 82]

\* C6: when the model step succeeded, the Decision is approved iff the
\* predicted label is 1, and its confidence is the entry of the class
\* distribution at the predicted label.
C6_ModelDecision ==
    (pc = "done" /\ path = "model")
        => /\ outcome = "decision"
           /\ prediction \in {0, 1}
           /\ decision.approved = (prediction = 1)
           /\ decision.confidence = proba[prediction + 1]

C6_Witness ==
    /\ pc = "done"
    /\ path = "model"
    /\ prediction = 0
    /\ proba = <<75, 25>>
    /\ decision = [approved |-> FALSE, confidence |-> 75]

\* C7: a categorical field for which label_encoders holds an encoder is
\* encoded with that encoder's code of the raw value, and a raw value
\* outside the encoder's vocabulary ends the request with InvalidCategory.
C7_EncoderDecides ==
    (pc = "done" /\ clicked /\ ~demo_mode)
        => \A f \in CategoricalFields \cap DOMAIN components.label_encoders :
              IF In(input_data[f], components.label_encoders[f])
              THEN processed_data.is_none
                     \/ processed_data.cells[ColumnIndex(f)]
                           = Cell(label_code(components.label_encoders[f], input_data[f]))
              ELSE outcome = "invalid_category"

\* C8: with no encoder and no scaler, the frame has the 11 columns in the
\* fixed order, the categorical ones holding the manual codes and the
\* numeric ones the raw values.
C8_ManualVector ==
    (~processed_data.is_none
        /\ components.scaler = "None"
        /\ DOMAIN components.label_encoders = {})
        => /\ processed_data.columns
                = <<"Gender", "Married", "Dependents", "Education",
                    "Self_Employed", "ApplicantIncome", "CoapplicantIncome",
                    "LoanAmount", "Loan_Amount_Term", "Credit_History",
                    "Property_Area">>
           /\ processed_data.cells
                = << Cell(IF input_data.Gender = "Male" THEN 1 ELSE 0),
                     Cell(IF input_data.Married = "Yes" THEN 1 ELSE 0),
                     Cell(CASE input_data.Dependents = "0" -> 0
                            [] input_data.Dependents = "1" -> 1
                            [] input_data.Dependents = "2" -> 2
                            [] input_data.Dependents = "3+" -> 3),
                     Cell(IF input_data.Education = "Graduate" THEN 1 ELSE 0),
                     Cell(IF input_data.Self_Employed = "Yes" THEN 1 ELSE 0),
                     Cell(input_data.ApplicantIncome),
                     Cell(input_data.CoapplicantIncome),
                     Cell(input_data.LoanAmount),
                     Cell(input_data.Loan_Amount_Term),
                     Cell(input_data.Credit_History),
                     Cell(CASE input_data.Property_Area = "Urban" -> 2
                            [] input_data.Property_Area = "Semiurban" -> 1
                            [] input_data.Property_Area = "Rural" -> 0) >>

C8_Witness ==
    /\ ~processed_data.is_none
    /\ components.scaler = "None"
    /\ DOMAIN components.label_encoders = {}
    /\ input_data.Married = "Yes"
    /\ input_data.Dependents = "3+"
    /\ SubSeq(processed_data.cells, 1, 5)
          = <<Cell(1), Cell(1), Cell(3), Cell(1), Cell(0)>>
    /\ processed_data.cells[11] = Cell(2)

\* C9 (as stated): every key of label_encoders is the name of a field of
\* the applicant record.
C9_KeysAreRecordFields ==
    DOMAIN components.label_encoders \subseteq FieldNames

\* C9 (amended): every key of label_encoders is the name of a field of the
\* applicant record or Loan_Status, the latter only for a vocabulary that
\* contains "Y".
C9_KeysAreFieldsOrTarget ==
    /\ DOMAIN components.label_encoders \subseteq FieldNames \cup {"Loan_Status"}
    /\ "Loan_Status" \in DOMAIN components.label_encoders
          => In("Y", components.label_encoders["Loan_Status"])

C9_Witness ==
    /\ pc = "sidebar"
    /\ DOMAIN components.label_encoders = {"Loan_Status", "Property_Area"}

\* C10: the risk score is the sum of the points of the conditions that
\* hold, lies in 0..100, and the level is Low below 30, Medium from 30 to
\* 59 and High from 60; credit history 0 with income < 3000 and no
\* co-applicant income scores at least 70 and is High.
C10_RiskScore ==
    risk_level # "None"
        => /\ \E credit \in {0, 40}, income \in {0, 20}, coapplicant \in {0, 10},
                 amount \in {0, 15}, education \in {0, 10}, employed \in {0, 5} :
                 /\ (credit = 40) <=> (input_data.Credit_History = 0)
                 /\ (income = 20) <=> (input_data.ApplicantIncome < 3000)
                 /\ (coapplicant = 10) <=> (input_data.CoapplicantIncome = 0)
                 /\ (amount = 15) <=> (input_data.LoanAmount > 300000)
                 /\ (education = 10) <=> (input_data.Education = "Not Graduate")
                 /\ (employed = 5) <=> (input_data.Self_Employed = "Yes")
                 /\ risk_score = credit + income + coapplicant + amount + education + employed
           /\ risk_score \in 0..100
           /\ (risk_level = "Low") <=> (risk_score < 30)
           /\ (risk_level = "Medium") <=> (30 <= risk_score /\ risk_score < 60)
           /\ (risk_level = "High") <=> (risk_score >= 60)
           /\ (input_data.Credit_History = 0 /\ input_data.ApplicantIncome < 3000
                  /\ input_data.CoapplicantIncome = 0)
                 => (risk_score >= 70 /\ risk_level = "High")

C10_Witness ==
    /\ risk_level = "High"
    /\ risk_score = 70
    /\ input_data.Credit_History = 0
    /\ input_data.ApplicantIncome = 1500
    /\ input_data.CoapplicantIncome = 0

====
